---- MODULE Spec2Model ----
(***************************************************************************)
(* Model of public/client.js: the WebAuthn client ceremonies               *)
(* registerCredential, unregisterCredential and authenticate, the          *)
(* transport helper _fetch they share, and the localStorage slot "credId". *)
(*                                                                         *)
(* JavaScript runs one task at a time: a ceremony can be interleaved with  *)
(* another one only where it awaits (a fetch, a platform call).  Each      *)
(* action below is therefore one run-to-completion segment of a ceremony:  *)
(* from its call, or from the settling of the promise it awaits, up to the *)
(* next await or to its end.  The effects a segment has on the outside     *)
(* world are appended, in program order, to the ceremony's log.            *)
(***************************************************************************)
EXTENDS Integers, Sequences, FiniteSets, TLC

\* ------------------------------------------------------------------ bounds
\* longest excludeCredentials / allowCredentials list the server sends
MaxList == 1

\* --------------------------------------------------------------- constants
\* client.js:31  res.status === 200
StatusOK == 200
\* statuses the server may answer with besides 200
OtherStatuses == {400, 500}

\* identifiers the platform hands out / the caller passes
CredIds == {"abc", "xyz"}
\* localStorage.getItem returns null for a missing key
Absent == "<null>"
\* the fixed storage key (client.js:102, 111, 125)
Key == "credId"
\* a value a promise settles with that the model does not look into: a
\* parsed JSON body, a thrown error, null
Js(text) == [js |-> text]
\* JSON bodies of a verification / removal answer
Bodies == {Js("{}"), Js("{ok:true}")}
\* values of the error field of a non-200 body (the field may be missing)
ErrVals == {Js("bad challenge"), Js("<undefined>")}
\* reasons the platform capability rejects with
PlatformReasons == {Js("NotAllowedError"), Js("InvalidStateError")}
\* resolution value of authenticate when the allow-list is empty
Null == Js("null")

\* The caller may invoke the three functions any number of times; the model
\* lets at most two invocations overlap, each running under one of two
\* handles.  A handle whose ceremony has settled is taken again by the next
\* invocation.
Handles == {"h1", "h2"}

\* ------------------------------------------------------------ binary codec
\* base64url is a library loaded by the page, not part of client.js.  A
\* value is a record: its form (text / binary) and the bytes it stands for;
\* bytes "?" is a text that is not url-safe base64.
Txt(b) == [form |-> "text", bytes |-> b]
Bin(b) == [form |-> "binary", bytes |-> b]
Malformed == Txt("?")
MalformedEncodingError == Js("MalformedEncodingError")

\* base64url.decode: text -> binary, fails on malformed text
DecodeOk(t) == t.form = "text" /\ t.bytes # "?"
decode(t) == Bin(t.bytes)
\* base64url.encode: binary -> text
encode(b) == Txt(b.bytes)

\* ---------------------------------------------------------------- state
VARIABLES
  slot,   \* localStorage["credId"]: an identifier, or Absent
  cer,    \* per handle: the function called, where it stands, its outcome
  log,    \* per handle: the external effects of its ceremony, in program order
  solo,   \* per handle: no other ceremony has run a segment since it began
  last    \* the segment run last: whose it was, what it was run with, what
          \* the ceremony awaited and what the slot held when it began

vars == <<slot, cer, log, solo, last>>

Pending == Js("<pending>")
Terminal == {"resolved", "rejected"}
InFlight(p) == cer[p].pc \notin (Terminal \cup {"idle"})

\* what a segment of a ceremony leaves behind: where the ceremony stands,
\* the value it settled with (if it did) and the effects it had
Step(pc, result, effects) == [pc |-> pc, result |-> result, effects |-> effects]

\* ------------------------------------------------------------- effects
NoQuery == "<none>"
NoPayload == [kind |-> "empty"]
\* encodeURIComponent(s): the percent-encoded form of s
encodeURIComponent(s) == "uri:" \o s

SetItem(k, v) == [op |-> "setItem", key |-> k, value |-> v]
\* removed: what the key held, noted with the effect (the code never reads it)
RemoveItem(k, removed) == [op |-> "removeItem", key |-> k, removed |-> removed]
GetItem(k, v) == [op |-> "getItem", key |-> k, value |-> v]
Create(options) == [op |-> "create", publicKey |-> options]
Get(options) == [op |-> "get", publicKey |-> options]

\* Store with a setItem that keeps an identifier already stored
RECURSIVE Store_KeepFirst(_, _)
Store_KeepFirst(s, effects) ==
  IF effects = <<>> THEN s
  ELSE LET e == Head(effects) IN
       Store_KeepFirst(IF e.op = "setItem" /\ e.key = Key
                       THEN (IF s = Absent THEN e.value ELSE s)
                       ELSE IF e.op = "removeItem" /\ e.key = Key THEN Absent
                       ELSE s,
                       Tail(effects))

\* the slot after the storage effects of a segment, applied in order
RECURSIVE Store(_, _)
Store(s, effects) ==
  IF effects = <<>> THEN s
  ELSE LET e == Head(effects) IN
       Store(IF e.op = "setItem" /\ e.key = Key THEN e.value
             ELSE IF e.op = "removeItem" /\ e.key = Key THEN Absent
             ELSE s,
             Tail(effects))

\* ----------------------------------------------------------- transport
\* _fetch, lines 17-30: the request it sends.  A payload that is not the
\* empty string is stringified and marked as JSON.
_fetchRequest(path, query, payload) ==
  [op |-> "fetch", path |-> path, query |-> query, method |-> "POST",
   credentials |-> "same-origin", requestedWith |-> "XMLHttpRequest",
   contentType |-> IF payload # NoPayload THEN "application/json" ELSE "<none>",
   body |-> payload]

Resolved(v) == [settled |-> "resolved", value |-> v]
Rejected(v) == [settled |-> "rejected", value |-> v]

\* _fetch throwing an error of its own instead of the body's error field
_fetch_OwnError(res) ==
  IF res.status = StatusOK THEN Resolved(res.json) ELSE Rejected(Js("Request failed"))

\* _fetch, lines 31-38: how it settles on the response res
_fetch(res) ==
  IF res.status = StatusOK THEN Resolved(res.json) ELSE Rejected(res.json.error)

\* the answers a server may give to a request
ErrorResponses == [status : OtherStatuses, json : [error : ErrVals]]
OkResponses(bodies) == [status : {StatusOK}, json : bodies]

\* lists of at most MaxList entries over S
Lists(S) == UNION {[1..n -> S] : n \in 0..MaxList}

\* a field a result of the platform may lack
Undefined == [form |-> "undefined", bytes |-> ""]

\* ------------------------------------------------- platform capability
\* navigator.credentials.create / get settle with a credential or reject
AttestationResponse ==
  [clientDataJSON |-> Bin("clientData"), attestationObject |-> Bin("attestation")]
NoAttestationResponse ==
  [clientDataJSON |-> Undefined, attestationObject |-> Undefined]
AssertionResponse ==
  [clientDataJSON |-> Bin("clientData"), authenticatorData |-> Bin("authData"),
   signature |-> Bin("sig"), userHandle |-> Bin("user")]
NoAssertionResponse ==
  [clientDataJSON |-> Undefined, authenticatorData |-> Undefined,
   signature |-> Undefined, userHandle |-> Undefined]

PublicKeyCredential(i, h, present, missing) ==
  [id |-> i, type |-> "public-key", rawId |-> Bin(i), hasResponse |-> h,
   response |-> IF h THEN present ELSE missing]

CreateResolves ==
  {Resolved(PublicKeyCredential(i, h, AttestationResponse, NoAttestationResponse)) :
     i \in CredIds, h \in BOOLEAN}
GetResolves ==
  {Resolved(PublicKeyCredential(i, h, AssertionResponse, NoAssertionResponse)) :
     i \in CredIds, h \in BOOLEAN}
PlatformRejects == {Rejected(r) : r \in PlatformReasons}

\* --------------------------------------------------- registerCredential
\* lines 47-66: the parameters sent with the options request
RegisterOpts ==
  [kind |-> "opts", attestation |-> "none", authenticatorAttachment |-> "platform",
   userVerification |-> "required", requireResistantKey |-> FALSE]

\* bodies of a 200 answer to /auth/registerRequest
TextFields == {Txt("bytes"), Malformed}
RegisterOptions ==
  {o \in [user : [id : TextFields], challenge : TextFields,
          hasExclude : BOOLEAN, excludeCredentials : Lists([id : TextFields])] :
     ~o.hasExclude => o.excludeCredentials = <<>>}

\* RegisterDecodes without the loop of lines 74-78
RegisterDecodes_NoExclude(options) ==
  /\ DecodeOk(options.user.id)
  /\ DecodeOk(options.challenge)

\* lines 72-78: every field decoded without a throw
RegisterDecodes(options) ==
  /\ DecodeOk(options.user.id)
  /\ DecodeOk(options.challenge)
  /\ options.hasExclude =>
       \A i \in DOMAIN options.excludeCredentials :
          DecodeOk(options.excludeCredentials[i].id)
\* lines 72-78: the options after the decoding in place
RegisterDecoded(options) ==
  [options EXCEPT
     !.user.id = decode(@),
     !.challenge = decode(@),
     !.excludeCredentials =
        IF options.hasExclude THEN [i \in DOMAIN @ |-> [id |-> decode(@[i].id)]] ELSE @]

\* RegisterCredentialObject with line 90 sending cred.rawId as it is
RegisterCredentialObject_RawId(cred) ==
  [kind |-> "credential", id |-> cred.id, rawId |-> cred.rawId,
   type |-> cred.type, hasResponse |-> cred.hasResponse,
   response |->
     IF cred.hasResponse
     THEN [clientDataJSON |-> encode(cred.response.clientDataJSON),
           attestationObject |-> encode(cred.response.attestationObject)]
     ELSE NoAttestationResponse]

\* lines 88-99: the credential object sent to the server
RegisterCredentialObject(cred) ==
  [kind |-> "credential", id |-> cred.id, rawId |-> encode(cred.rawId),
   type |-> cred.type, hasResponse |-> cred.hasResponse,
   response |->
     IF cred.hasResponse
     THEN [clientDataJSON |-> encode(cred.response.clientDataJSON),
           attestationObject |-> encode(cred.response.attestationObject)]
     ELSE NoAttestationResponse]

\* lines 47-68: call, up to the await of the options request
RegisterBegin ==
  Step("registerRequest", Pending,
       <<_fetchRequest("/auth/registerRequest", NoQuery, RegisterOpts)>>)

\* RegisterOnOptions asking for the options again when the request fails
RegisterOnOptions_Retry(res) ==
  LET r == _fetch(res) IN
  IF r.settled = "rejected"
  THEN Step("registerRequest", Pending,
            <<_fetchRequest("/auth/registerRequest", NoQuery, RegisterOpts)>>)
  ELSE IF ~RegisterDecodes(r.value) THEN Step("rejected", MalformedEncodingError, <<>>)
  ELSE Step("create", Pending, <<Create(RegisterDecoded(r.value))>>)

\* lines 68-84: from the answer to the options request to the await of create
RegisterOnOptions(res) ==
  LET r == _fetch(res) IN
  IF r.settled = "rejected" THEN Step("rejected", r.value, <<>>)
  ELSE IF ~RegisterDecodes(r.value) THEN Step("rejected", MalformedEncodingError, <<>>)
  ELSE Step("create", Pending, <<Create(RegisterDecoded(r.value))>>)

\* RegisterOnCreate deleting the stored identifier when create rejects
RegisterOnCreate_ClearOnReject(s) ==
  IF s.settled = "rejected" THEN Step("rejected", s.value, <<RemoveItem(Key, Absent)>>)
  ELSE LET credential == RegisterCredentialObject(s.value) IN
       Step("registerResponse", Pending,
            <<SetItem(Key, credential.id),
              _fetchRequest("/auth/registerResponse", NoQuery, credential)>>)

\* RegisterOnCreate with lines 102 and 105 swapped: the request leaves first
RegisterOnCreate_SendFirst(s) ==
  IF s.settled = "rejected" THEN Step("rejected", s.value, <<>>)
  ELSE LET credential == RegisterCredentialObject(s.value) IN
       Step("registerResponse", Pending,
            <<_fetchRequest("/auth/registerResponse", NoQuery, credential),
              SetItem(Key, credential.id)>>)

\* lines 82-105: from the settling of create to the await of the verification
RegisterOnCreate(s) ==
  IF s.settled = "rejected" THEN Step("rejected", s.value, <<>>)
  ELSE LET credential == RegisterCredentialObject(s.value) IN
       Step("registerResponse", Pending,
            <<SetItem(Key, credential.id),
              _fetchRequest("/auth/registerResponse", NoQuery, credential)>>)

\* RegisterOnVerify undoing the write of line 102 when verification fails
RegisterOnVerify_Rollback(res) ==
  LET r == _fetch(res) IN
  Step(r.settled, r.value,
       IF r.settled = "rejected" THEN <<RemoveItem(Key, Absent)>> ELSE <<>>)

\* line 105: the ceremony settles as the verification request does
RegisterOnVerify(res) ==
  LET r == _fetch(res) IN Step(r.settled, r.value, <<>>)

\* --------------------------------------------------- unregisterCredential
\* UnregisterBegin asking the server to remove the stored identifier
UnregisterBegin_StoredId(credId, stored) ==
  Step("removeKey", Pending,
       <<RemoveItem(Key, stored),
         _fetchRequest("/auth/removeKey", encodeURIComponent(stored), NoPayload)>>)

\* UnregisterBegin deleting the slot only when it holds the argument
UnregisterBegin_IfMatches(credId, stored) ==
  Step("removeKey", Pending,
       (IF stored = credId THEN <<RemoveItem(Key, stored)>> ELSE <<>>)
       \o <<_fetchRequest("/auth/removeKey", encodeURIComponent(credId), NoPayload)>>)

\* UnregisterBegin with lines 111 and 112 swapped: the request leaves first
UnregisterBegin_SendFirst(credId, stored) ==
  Step("removeKey", Pending,
       <<_fetchRequest("/auth/removeKey", encodeURIComponent(credId), NoPayload),
         RemoveItem(Key, stored)>>)

\* UnregisterBegin skipping the request when there is nothing to delete
UnregisterBegin_SkipAbsent(credId, stored) ==
  IF stored = Absent THEN Step("resolved", Js("{}"), <<RemoveItem(Key, stored)>>)
  ELSE Step("removeKey", Pending,
            <<RemoveItem(Key, stored),
              _fetchRequest("/auth/removeKey", encodeURIComponent(credId), NoPayload)>>)

\* lines 110-113: call, up to the returned promise of the removal request;
\* stored is the content of the slot at the call
UnregisterBegin(credId, stored) ==
  Step("removeKey", Pending,
       <<RemoveItem(Key, stored),
         _fetchRequest("/auth/removeKey", encodeURIComponent(credId), NoPayload)>>)

\* line 112: the returned promise settles as the removal request does
UnregisterOnRemove(res) ==
  LET r == _fetch(res) IN Step(r.settled, r.value, <<>>)

\* ---------------------------------------------------------- authenticate
\* line 121: the (empty) parameters sent with the options request
AuthenticateOpts == [kind |-> "emptyObject"]
\* line 126: if (credId)
Truthy(v) == v # Absent /\ v # ""

\* bodies of a 200 answer to /auth/signinRequest
AuthenticateOptions ==
  [challenge : TextFields, allowCredentials : Lists([id : TextFields])]

\* lines 142-146: every field decoded without a throw
AuthenticateDecodes(options) ==
  /\ DecodeOk(options.challenge)
  /\ \A i \in DOMAIN options.allowCredentials :
        DecodeOk(options.allowCredentials[i].id)
\* AuthenticateDecoded without the loop of lines 144-146
AuthenticateDecoded_ChallengeOnly(options) ==
  [options EXCEPT !.challenge = decode(@)]

\* lines 142-146: the options after the decoding in place
AuthenticateDecoded(options) ==
  [options EXCEPT
     !.challenge = decode(@),
     !.allowCredentials = [i \in DOMAIN @ |-> [id |-> decode(@[i].id)]]]

\* lines 153-169: the credential object sent to the server
AuthenticateCredentialObject(cred) ==
  [kind |-> "credential", id |-> cred.id, type |-> cred.type,
   rawId |-> encode(cred.rawId), hasResponse |-> cred.hasResponse,
   response |->
     IF cred.hasResponse
     THEN [clientDataJSON |-> encode(cred.response.clientDataJSON),
           authenticatorData |-> encode(cred.response.authenticatorData),
           signature |-> encode(cred.response.signature),
           userHandle |-> encode(cred.response.userHandle)]
     ELSE NoAssertionResponse]

\* AuthenticateBegin without the test of line 126
AuthenticateBegin_AlwaysQuery(stored) ==
  Step("signinRequest", Pending,
       <<GetItem(Key, stored),
         _fetchRequest("/auth/signinRequest", encodeURIComponent(stored),
                       AuthenticateOpts)>>)

\* lines 121-130: call, up to the await of the options request; stored is
\* the content of the slot at the call
AuthenticateBegin(stored) ==
  Step("signinRequest", Pending,
       <<GetItem(Key, stored),
         _fetchRequest("/auth/signinRequest",
                       IF Truthy(stored) THEN encodeURIComponent(stored) ELSE NoQuery,
                       AuthenticateOpts)>>)

\* AuthenticateOnOptions without the test of line 136
AuthenticateOnOptions_NoShortCircuit(res) ==
  LET r == _fetch(res) IN
  IF r.settled = "rejected" THEN Step("rejected", r.value, <<>>)
  ELSE IF ~AuthenticateDecodes(r.value)
       THEN Step("rejected", MalformedEncodingError, <<>>)
  ELSE Step("get", Pending, <<Get(AuthenticateDecoded(r.value))>>)

\* AuthenticateOnOptions returning, for an empty allowCredentials, a promise
\* nothing ever settles
AuthenticateOnOptions_NeverSettles(res) ==
  LET r == _fetch(res) IN
  IF r.settled = "rejected" THEN Step("rejected", r.value, <<>>)
  ELSE IF Len(r.value.allowCredentials) = 0 THEN Step("never", Pending, <<>>)
  ELSE IF ~AuthenticateDecodes(r.value)
       THEN Step("rejected", MalformedEncodingError, <<>>)
  ELSE Step("get", Pending, <<Get(AuthenticateDecoded(r.value))>>)

\* lines 130-151: from the answer to the options request to the await of get
AuthenticateOnOptions(res) ==
  LET r == _fetch(res) IN
  IF r.settled = "rejected" THEN Step("rejected", r.value, <<>>)
  ELSE IF Len(r.value.allowCredentials) = 0 THEN Step("resolved", Null, <<>>)
  ELSE IF ~AuthenticateDecodes(r.value)
       THEN Step("rejected", MalformedEncodingError, <<>>)
  ELSE Step("get", Pending, <<Get(AuthenticateDecoded(r.value))>>)

\* AuthenticateOnGet storing the identifier of the credential used
AuthenticateOnGet_Persist(s) ==
  IF s.settled = "rejected" THEN Step("rejected", s.value, <<>>)
  ELSE Step("signinResponse", Pending,
            <<SetItem(Key, s.value.id),
              _fetchRequest("/auth/signinResponse", NoQuery,
                            AuthenticateCredentialObject(s.value))>>)

\* AuthenticateOnGet catching the rejection and throwing an error of its own
AuthenticateOnGet_OwnError(s) ==
  IF s.settled = "rejected" THEN Step("rejected", Js("Authentication failed"), <<>>)
  ELSE Step("signinResponse", Pending,
            <<_fetchRequest("/auth/signinResponse", NoQuery,
                            AuthenticateCredentialObject(s.value))>>)

\* lines 149-171: from the settling of get to the await of the verification
AuthenticateOnGet(s) ==
  IF s.settled = "rejected" THEN Step("rejected", s.value, <<>>)
  ELSE Step("signinResponse", Pending,
            <<_fetchRequest("/auth/signinResponse", NoQuery,
                            AuthenticateCredentialObject(s.value))>>)

\* line 171: the ceremony settles as the verification request does
AuthenticateOnVerify(res) ==
  LET r == _fetch(res) IN Step(r.settled, r.value, <<>>)

\* ---------------------------------------------------------------- actions
Init ==
  /\ slot = Absent
  /\ cer = [p \in Handles |-> [fn |-> "none", pc |-> "idle", result |-> Pending]]
  /\ log = [p \in Handles |-> <<>>]
  /\ solo = [p \in Handles |-> TRUE]
  /\ last = [to |-> "none", kind |-> "none", at |-> "idle", before |-> Absent,
             input |-> Pending]

\* what a segment is run with: the caller's argument, a response of the
\* server, or the settling of a platform call; with it, where the ceremony
\* stood and what the slot held when the segment began
Input(p, kind, input) ==
  [to |-> p, kind |-> kind, at |-> cer[p].pc, before |-> slot, input |-> input]

\* what a function is called with
Argument(a) == [argument |-> a]

\* the ceremony of handle p runs a segment that leaves step behind
Run(p, fn, step, in) ==
  /\ cer' = [cer EXCEPT ![p] = [fn |-> fn, pc |-> step.pc, result |-> step.result]]
  /\ log' = [log EXCEPT ![p] = (IF in.kind = "call" THEN <<>> ELSE @) \o step.effects]
  /\ slot' = Store(slot, step.effects)
  /\ solo' = [q \in Handles |->
               IF q = p THEN (IF in.kind = "call" THEN TRUE ELSE solo[p])
               ELSE IF InFlight(q) THEN FALSE ELSE solo[q]]
  /\ last' = in

\* an invocation takes the first handle that is free
Callable(p) == ~InFlight(p) /\ (p = "h2" => InFlight("h1"))
Awaiting(p, fn, pc) == cer[p].fn = fn /\ cer[p].pc = pc

registerCredential(p) ==
  /\ Callable(p)
  /\ Run(p, "registerCredential", RegisterBegin, Input(p, "call", Argument(NoQuery)))

registerRequestSettles(p) ==
  /\ Awaiting(p, "registerCredential", "registerRequest")
  /\ \/ \E res \in OkResponses(RegisterOptions) :
          Run(p, "registerCredential", RegisterOnOptions(res), Input(p, "response", res))
     \/ \E res \in ErrorResponses :
          Run(p, "registerCredential", RegisterOnOptions(res), Input(p, "response", res))

createSettles(p) ==
  /\ Awaiting(p, "registerCredential", "create")
  /\ \/ \E s \in CreateResolves :
          Run(p, "registerCredential", RegisterOnCreate(s), Input(p, "platform", s))
     \/ \E s \in PlatformRejects :
          Run(p, "registerCredential", RegisterOnCreate(s), Input(p, "platform", s))

registerResponseSettles(p) ==
  /\ Awaiting(p, "registerCredential", "registerResponse")
  /\ \/ \E res \in OkResponses(Bodies) :
          Run(p, "registerCredential", RegisterOnVerify(res), Input(p, "response", res))
     \/ \E res \in ErrorResponses :
          Run(p, "registerCredential", RegisterOnVerify(res), Input(p, "response", res))

unregisterCredential(p) ==
  /\ Callable(p)
  /\ \E credId \in CredIds :
        Run(p, "unregisterCredential", UnregisterBegin(credId, slot), Input(p, "call", Argument(credId)))

removeKeySettles(p) ==
  /\ Awaiting(p, "unregisterCredential", "removeKey")
  /\ \/ \E res \in OkResponses(Bodies) :
          Run(p, "unregisterCredential", UnregisterOnRemove(res), Input(p, "response", res))
     \/ \E res \in ErrorResponses :
          Run(p, "unregisterCredential", UnregisterOnRemove(res), Input(p, "response", res))

authenticate(p) ==
  /\ Callable(p)
  /\ Run(p, "authenticate", AuthenticateBegin(slot), Input(p, "call", Argument(NoQuery)))

signinRequestSettles(p) ==
  /\ Awaiting(p, "authenticate", "signinRequest")
  /\ \/ \E res \in OkResponses(AuthenticateOptions) :
          Run(p, "authenticate", AuthenticateOnOptions(res), Input(p, "response", res))
     \/ \E res \in ErrorResponses :
          Run(p, "authenticate", AuthenticateOnOptions(res), Input(p, "response", res))

getSettles(p) ==
  /\ Awaiting(p, "authenticate", "get")
  /\ \/ \E s \in GetResolves :
          Run(p, "authenticate", AuthenticateOnGet(s), Input(p, "platform", s))
     \/ \E s \in PlatformRejects :
          Run(p, "authenticate", AuthenticateOnGet(s), Input(p, "platform", s))

signinResponseSettles(p) ==
  /\ Awaiting(p, "authenticate", "signinResponse")
  /\ \/ \E res \in OkResponses(Bodies) :
          Run(p, "authenticate", AuthenticateOnVerify(res), Input(p, "response", res))
     \/ \E res \in ErrorResponses :
          Run(p, "authenticate", AuthenticateOnVerify(res), Input(p, "response", res))

Next ==
  \E p \in Handles :
    \/ registerCredential(p)
    \/ registerRequestSettles(p)
    \/ createSettles(p)
    \/ registerResponseSettles(p)
    \/ unregisterCredential(p)
    \/ removeKeySettles(p)
    \/ authenticate(p)
    \/ signinRequestSettles(p)
    \/ getSettles(p)
    \/ signinResponseSettles(p)

Spec == Init /\ [][Next]_vars

\* the network call or platform call the ceremony of p awaits settles
Settles(p) ==
  \/ registerRequestSettles(p)
  \/ createSettles(p)
  \/ registerResponseSettles(p)
  \/ removeKeySettles(p)
  \/ signinRequestSettles(p)
  \/ getSettles(p)
  \/ signinResponseSettles(p)

\* Each handle taken once: a first invocation of any of the three functions
\* under h1 and, while it is in flight, a second one under h2; with the
\* assumption that every network call and every platform call eventually
\* settles.
callOnce(p) ==
  /\ cer[p].pc = "idle"
  /\ \/ registerCredential(p)
     \/ unregisterCredential(p)
     \/ authenticate(p)

NextEverySettles == \E p \in Handles : callOnce(p) \/ Settles(p)

EverySettles ==
  Init /\ [][NextEverySettles]_vars /\ \A p \in Handles : WF_vars(Settles(p))

\* Two registrations and nothing else: registerCredential is called once
\* under h1 and, while that ceremony is in flight, once under h2.
registerOnce(p) == cer[p].pc = "idle" /\ registerCredential(p)

NextTwoRegistrations ==
  \E p \in Handles :
    \/ registerOnce(p)
    \/ registerRequestSettles(p)
    \/ createSettles(p)
    \/ registerResponseSettles(p)

TwoRegistrations == Init /\ [][NextTwoRegistrations]_vars

\* One registration and one unregistration and nothing else: one of them is
\* called under h1 and, while it is in flight, the other under h2.
unregisterOnce(p) ==
  /\ cer[p].pc = "idle"
  /\ \A q \in Handles : cer[q].fn # "unregisterCredential"
  /\ unregisterCredential(p)

registerBesideUnregister(p) ==
  /\ \A q \in Handles : cer[q].fn # "registerCredential"
  /\ registerOnce(p)

NextRegisterUnregister ==
  \E p \in Handles :
    \/ registerBesideUnregister(p)
    \/ registerRequestSettles(p)
    \/ createSettles(p)
    \/ registerResponseSettles(p)
    \/ unregisterOnce(p)
    \/ removeKeySettles(p)

RegisterUnregister == Init /\ [][NextRegisterUnregister]_vars

\* ------------------------------------------------------------ properties
\* positions in the log of handle p
FetchesTo(p, path) ==
  {i \in DOMAIN log[p] : log[p][i].op = "fetch" /\ log[p][i].path = path}
Ops(p, op) == {i \in DOMAIN log[p] : log[p][i].op = op}
PlatformCalls(p) == Ops(p, "create") \cup Ops(p, "get")

\* the state is the one the segment of p that was awaiting `at` has left
JustRan(p, kind, at) == last.to = p /\ last.kind = kind /\ last.at = at
Is(p, fn) == cer[p].fn = fn
Answered200(p, at) == JustRan(p, "response", at) /\ last.input.status = StatusOK
AnsweredError(p, at) == JustRan(p, "response", at) /\ last.input.status # StatusOK
PlatformResolved(p, at) == JustRan(p, "platform", at) /\ last.input.settled = "resolved"
PlatformRejected(p, at) == JustRan(p, "platform", at) /\ last.input.settled = "rejected"

\* the options request of authenticate was answered with an empty allow-list
EmptyAllowList(p) ==
  /\ Answered200(p, "signinRequest")
  /\ Len(last.input.json.allowCredentials) = 0
\* C1: when the answer to the authentication-options request has an empty
\* allowCredentials list, authenticate resolves with null, has not called
\* the platform get operation and has sent no request to the
\* authentication-verification endpoint; being settled, it never will.
C1_EmptyAllowListResolvesNull ==
  \A p \in Handles :
    EmptyAllowList(p) =>
      /\ cer[p].pc = "resolved"
      /\ cer[p].result = Null
      /\ PlatformCalls(p) = {}
      /\ FetchesTo(p, "/auth/signinResponse") = {}
      /\ Len(log[p]) = 2
\* an empty allow-list has been answered, its challenge not even decodable
C1_Witness ==
  \E p \in Handles :
    EmptyAllowList(p) /\ last.input.json.challenge = Malformed

\* C2: in registerCredential the identifier is written to the slot at most
\* once; it is not written before create has resolved; once create has
\* resolved it has been written exactly once, with the identifier create
\* returned, whatever the slot held, and the write precedes the
\* registration-verification request in program order.
C2_PersistOnceAfterCreateBeforeVerify ==
  \A p \in Handles :
    Is(p, "registerCredential") =>
      /\ Cardinality(Ops(p, "setItem")) <= 1
      /\ Cardinality(FetchesTo(p, "/auth/registerResponse")) <= 1
      /\ cer[p].pc \in {"registerRequest", "create"} => Ops(p, "setItem") = {}
      /\ PlatformRejected(p, "create") => Ops(p, "setItem") = {}
      /\ \A i \in Ops(p, "setItem") :
            /\ \E j \in Ops(p, "create") : j < i
            /\ \E k \in FetchesTo(p, "/auth/registerResponse") : i < k
      /\ \A k \in FetchesTo(p, "/auth/registerResponse") :
            \E i \in Ops(p, "setItem") : i < k
      /\ PlatformResolved(p, "create") =>
            /\ Cardinality(Ops(p, "setItem")) = 1
            /\ \A i \in Ops(p, "setItem") :
                  log[p][i] = SetItem(Key, last.input.value.id)
            /\ slot = last.input.value.id
\* create has resolved with an identifier while the slot held another one
C2_Witness ==
  \E p \in Handles :
    /\ Is(p, "registerCredential")
    /\ PlatformResolved(p, "create")
    /\ last.before \in CredIds
    /\ last.before # last.input.value.id
    /\ slot = last.input.value.id

\* body is the credential object of cred, its binary fields in text form
TextOf(v, b) == v.form = "text" /\ v.bytes = b.bytes
VerificationOf(body, cred) ==
  /\ body.id = cred.id
  /\ body.type = cred.type
  /\ TextOf(body.rawId, cred.rawId)
  /\ body.hasResponse = cred.hasResponse
  /\ cred.hasResponse =>
       /\ TextOf(body.response.clientDataJSON, cred.response.clientDataJSON)
       /\ TextOf(body.response.attestationObject, cred.response.attestationObject)
\* C3: a registerCredential that runs alone and succeeds at every step
\* resolves with exactly the body of the verification answer; the slot then
\* holds the identifier create returned; and exactly one verification
\* request was sent, carrying that identifier and the binary fields of the
\* credential in text form.
C3_RegistrationHappyPath ==
  \A p \in Handles :
    Is(p, "registerCredential") =>
      /\ PlatformResolved(p, "create") =>
            /\ cer[p].pc = "registerResponse"
            /\ \A k \in FetchesTo(p, "/auth/registerResponse") :
                  /\ k = Len(log[p])
                  /\ log[p][k].contentType = "application/json"
                  /\ VerificationOf(log[p][k].body, last.input.value)
      /\ (Answered200(p, "registerResponse") /\ solo[p]) =>
            /\ cer[p].pc = "resolved"
            /\ cer[p].result = last.input.json
            /\ Cardinality(FetchesTo(p, "/auth/registerResponse")) = 1
            /\ \A k \in FetchesTo(p, "/auth/registerResponse") :
                  /\ slot = log[p][k].body.id
                  /\ log[p][k - 1] = SetItem(Key, log[p][k].body.id)
\* a registration that ran alone has resolved, over an earlier identifier
C3_Witness ==
  \E p \in Handles :
    /\ Is(p, "registerCredential")
    /\ Answered200(p, "registerResponse")
    /\ solo[p]
    /\ cer[p].result = Js("{ok:true}")
    /\ slot = "abc"
    /\ \E q \in Handles : q # p /\ Is(q, "registerCredential")
          /\ \E i \in Ops(q, "setItem") : log[q][i].value = "xyz"

\* C4: when the registration-verification request is answered non-200,
\* registerCredential rejects with the server's error, and that segment
\* leaves the slot as it was: nothing is removed or restored.  Run alone,
\* the ceremony ends with the slot holding the identifier just created.
C4_NoRollbackOnVerifyFailure ==
  \A p \in Handles :
    (Is(p, "registerCredential") /\ AnsweredError(p, "registerResponse")) =>
      /\ cer[p].pc = "rejected"
      /\ cer[p].result = last.input.json.error
      /\ slot = last.before
      /\ Ops(p, "removeItem") = {}
      /\ Cardinality(Ops(p, "setItem")) = 1
      /\ solo[p] => \A i \in Ops(p, "setItem") : slot = log[p][i].value
\* a registration run alone has been rejected at verification
C4_Witness ==
  \E p \in Handles :
    /\ Is(p, "registerCredential")
    /\ AnsweredError(p, "registerResponse")
    /\ solo[p]
    /\ cer[p].pc = "rejected"
    /\ slot \in CredIds

\* the state is the one the call of p has left; the requests of p
Called(p) == last.to = p /\ last.kind = "call"
Fetches(p) == Ops(p, "fetch")
\* C5: whatever its argument and whatever the slot holds (nothing, the
\* argument, another identifier), the call of unregisterCredential leaves
\* the slot absent, and the ceremony sends exactly one request, the removal
\* request, from its call to its end.
C5_UnregisterClearsAndRequestsOnce ==
  \A p \in Handles :
    Is(p, "unregisterCredential") =>
      /\ Cardinality(Fetches(p)) = 1
      /\ Fetches(p) = FetchesTo(p, "/auth/removeKey")
      /\ Cardinality(Ops(p, "removeItem")) = 1
      /\ Called(p) =>
            /\ slot = Absent
            /\ log[p][1] = RemoveItem(Key, last.before)
            /\ \A k \in Fetches(p) : log[p][k].query = encodeURIComponent(last.input.argument)
      /\ (JustRan(p, "response", "removeKey") /\ solo[p]) => slot = Absent
\* unregisterCredential was called with an identifier other than the stored one
C5_Witness ==
  \E p \in Handles :
    /\ Is(p, "unregisterCredential")
    /\ Called(p)
    /\ last.before \in CredIds
    /\ last.before # last.input.argument
    /\ slot = Absent

\* C6: in unregisterCredential the deletion of the slot precedes the
\* removal request, and a non-200 answer makes it reject with the server's
\* error while that segment leaves the slot as it was: nothing is restored
\* (run alone, the slot is absent at the rejection).
C6_UnregisterDeletesFirst ==
  \A p \in Handles :
    Is(p, "unregisterCredential") =>
      /\ \A k \in Fetches(p) : \E i \in Ops(p, "removeItem") : i < k
      /\ Ops(p, "setItem") = {}
      /\ AnsweredError(p, "removeKey") =>
            /\ cer[p].pc = "rejected"
            /\ cer[p].result = last.input.json.error
            /\ slot = last.before
            /\ solo[p] => slot = Absent
\* an unregistration that deleted an identifier was rejected by the server
C6_Witness ==
  \E p \in Handles :
    /\ Is(p, "unregisterCredential")
    /\ AnsweredError(p, "removeKey")
    /\ solo[p]
    /\ log[p][1].removed \in CredIds
    /\ slot = Absent

\* unregisterCredential was called while the slot was absent
CalledOnAbsent(p) ==
  /\ Is(p, "unregisterCredential")
  /\ log[p][1].op = "removeItem"
  /\ log[p][1].removed = Absent
PathOf(at) == "/auth/" \o at
HasMalformed(options, lists) ==
  \/ options.challenge = Malformed
  \/ \E f \in lists : \E i \in DOMAIN options[f] : options[f][i].id = Malformed
RegisterMalformed(options) ==
  \/ options.user.id = Malformed
  \/ HasMalformed(options, IF options.hasExclude THEN {"excludeCredentials"} ELSE {})
AuthenticateMalformed(options) ==
  /\ Len(options.allowCredentials) > 0
  /\ HasMalformed(options, {"allowCredentials"})
\* C8: a non-200 answer to any request of a ceremony makes the ceremony
\* reject with exactly the error field of the body, the segment having no
\* effect (no request, no platform call, no storage access; the answered
\* request is the last entry of the log); after a 200 answer the ceremony
\* is not rejected unless a field of the options failed to decode.
C8_TransportErrorPropagation ==
  \A p \in Handles :
    (last.to = p /\ last.kind = "response") =>
      /\ last.input.status # StatusOK =>
            /\ cer[p].pc = "rejected"
            /\ cer[p].result = last.input.json.error
            /\ log[p][Len(log[p])].op = "fetch"
            /\ log[p][Len(log[p])].path = PathOf(last.at)
            /\ Cardinality(FetchesTo(p, PathOf(last.at))) = 1
            /\ slot = last.before
      /\ (last.input.status = StatusOK /\ cer[p].pc = "rejected") =>
            /\ cer[p].result = MalformedEncodingError
            /\ \/ last.at = "registerRequest" /\ RegisterMalformed(last.input.json)
               \/ last.at = "signinRequest" /\ AuthenticateMalformed(last.input.json)
\* the verification request of an authentication was answered non-200
C8_Witness ==
  \E p \in Handles :
    /\ AnsweredError(p, "signinResponse")
    /\ last.input.json.error = Js("bad challenge")
    /\ cer[p].pc = "rejected"

\* C9: when create or get rejects, the ceremony rejects with the platform's
\* reason, has sent no verification request, has called the platform
\* capability once, and the segment has no effect.
C9_PlatformRejectionPropagates ==
  \A p \in Handles :
    (PlatformRejected(p, "create") \/ PlatformRejected(p, "get")) =>
      /\ cer[p].pc = "rejected"
      /\ cer[p].result = last.input.value
      /\ FetchesTo(p, "/auth/registerResponse") = {}
      /\ FetchesTo(p, "/auth/signinResponse") = {}
      /\ Cardinality(PlatformCalls(p)) = 1
      /\ PlatformCalls(p) = {Len(log[p])}
      /\ slot = last.before
\* get has rejected
C9_Witness ==
  \E p \in Handles :
    /\ PlatformRejected(p, "get")
    /\ cer[p].result = Js("NotAllowedError")

\* the options answered to p hold a field that the ceremony fails to decode
DecodeFailed(p) ==
  \/ Answered200(p, "registerRequest") /\ RegisterMalformed(last.input.json)
  \/ Answered200(p, "signinRequest") /\ AuthenticateMalformed(last.input.json)
\* C10: when a field of the options does not decode (user id, challenge or
\* an excluded identifier in registration; challenge or an allowed
\* identifier in authentication with a non-empty allow-list), the ceremony
\* is rejected without a call of create or get and without a verification
\* request.
C10_DecodeFailureAborts ==
  \A p \in Handles :
    DecodeFailed(p) =>
      /\ cer[p].pc = "rejected"
      /\ cer[p].result = MalformedEncodingError
      /\ PlatformCalls(p) = {}
      /\ FetchesTo(p, "/auth/registerResponse") = {}
      /\ FetchesTo(p, "/auth/signinResponse") = {}
      /\ Cardinality(Fetches(p)) = 1
\* only an excluded identifier of a registration failed to decode
C10_Witness ==
  \E p \in Handles :
    /\ Answered200(p, "registerRequest")
    /\ last.input.json.user.id # Malformed
    /\ last.input.json.challenge # Malformed
    /\ RegisterMalformed(last.input.json)
    /\ cer[p].pc = "rejected"

\* the identifier the registration of p has written to the slot
Persisted(p) == Ops(p, "setItem") # {}
PersistedId(p) == log[p][CHOOSE i \in Ops(p, "setItem") : TRUE].value
\* C11 (two registrations, h1 called first): the slot holds the identifier
\* of the persist step in the state that step leaves, whatever the other
\* ceremony wrote before, and no later segment of either ceremony changes
\* it; so once both have persisted the slot holds the identifier of the
\* later persist step, whichever ceremony began or is answered first.
C11_LastWriteWins ==
  \A p \in Handles :
    /\ PlatformResolved(p, "create") =>
          (Persisted(p) /\ slot = PersistedId(p) /\ slot = last.input.value.id)
    /\ (last.to = p /\ ~PlatformResolved(p, "create")) => slot = last.before
    /\ (\A q \in Handles : Persisted(q)) => \E q \in Handles : slot = PersistedId(q)
    /\ ((\A q \in Handles : ~Persisted(q)) => slot = Absent)
\* h1 began first and h2 persisted first; h1 persisted last, so the slot
\* holds its identifier, and h1 was answered first while h2 still waits
C11_Witness ==
  /\ Persisted("h1") /\ Persisted("h2")
  /\ PersistedId("h1") = "abc" /\ PersistedId("h2") = "xyz"
  /\ slot = "abc"
  /\ Answered200("h1", "registerResponse")
  /\ cer["h1"].pc = "resolved"
  /\ cer["h2"].pc = "registerResponse"
\* the other order: h2, begun second, persisted last and is answered last
C11_WitnessOtherOrder ==
  /\ Persisted("h1") /\ Persisted("h2")
  /\ PersistedId("h1") = "abc" /\ PersistedId("h2") = "xyz"
  /\ slot = "xyz"
  /\ Answered200("h2", "registerResponse")
  /\ cer["h1"].pc = "resolved"

\* C12: authenticate reads the slot once, as the first thing it does, and
\* the value read is what the slot held at the call; its options request,
\* sent next, carries the credId parameter exactly when an identifier was
\* read, and then the parameter is that identifier; no later request of the
\* ceremony carries a parameter and the slot is not read again, whatever
\* other ceremonies do to it meanwhile.
C12_AuthenticateReadsSlotOnce ==
  \A p \in Handles :
    Is(p, "authenticate") =>
      /\ Ops(p, "getItem") = {1}
      /\ FetchesTo(p, "/auth/signinRequest") = {2}
      /\ log[p][2].query # NoQuery <=> log[p][1].value \in CredIds
      /\ log[p][1].value \in CredIds =>
            log[p][2].query = encodeURIComponent(log[p][1].value)
      /\ Called(p) => log[p][1].value = last.before
      /\ \A k \in Fetches(p) : k # 2 => log[p][k].query = NoQuery
\* an authentication that read "abc" was verified after the slot had changed
C12_Witness ==
  \E p \in Handles :
    /\ Is(p, "authenticate")
    /\ Answered200(p, "signinResponse")
    /\ cer[p].pc = "resolved"
    /\ log[p][1].value = "abc"
    /\ log[p][2].query = encodeURIComponent("abc")
    /\ slot # "abc"
\* an authentication that read nothing sent no parameter, the slot set since
C12_WitnessAbsent ==
  \E p \in Handles :
    /\ Is(p, "authenticate")
    /\ InFlight(p)
    /\ log[p][1].value = Absent
    /\ log[p][2].query = NoQuery
    /\ slot \in CredIds

\* the fields of an assertion response
AssertionFields == {"clientDataJSON", "authenticatorData", "signature", "userHandle"}
\* C13: in authenticate, the options given to the platform get operation
\* hold the challenge and every allow-list identifier in binary form, with
\* the bytes the server sent; the verification request is sent after get,
\* and its body holds the raw identifier, client data, authenticator data,
\* signature and user handle of the result in text form, with the bytes the
\* platform returned: no text reaches the platform, no binary the server.
C13_AuthenticateFormsAtBoundaries ==
  \A p \in Handles :
    Is(p, "authenticate") =>
      /\ \A i \in Ops(p, "get") :
            LET pk == log[p][i].publicKey IN
            /\ Len(pk.allowCredentials) > 0
            /\ pk.challenge.form = "binary"
            /\ \A j \in DOMAIN pk.allowCredentials :
                  pk.allowCredentials[j].id.form = "binary"
      /\ (Answered200(p, "signinRequest") /\ cer[p].pc = "get") =>
            LET pk == log[p][Len(log[p])].publicKey
                sent == last.input.json IN
            /\ pk.challenge = Bin(sent.challenge.bytes)
            /\ DOMAIN pk.allowCredentials = DOMAIN sent.allowCredentials
            /\ \A j \in DOMAIN pk.allowCredentials :
                  pk.allowCredentials[j].id = Bin(sent.allowCredentials[j].id.bytes)
      /\ \A k \in FetchesTo(p, "/auth/signinResponse") :
            LET body == log[p][k].body IN
            /\ \E i \in Ops(p, "get") : i < k
            /\ body.rawId.form = "text"
            /\ \A f \in AssertionFields : body.response[f].form # "binary"
            /\ body.hasResponse => \A f \in AssertionFields : body.response[f].form = "text"
      /\ PlatformResolved(p, "get") =>
            LET body == log[p][Len(log[p])].body
                cred == last.input.value IN
            /\ log[p][Len(log[p])].path = "/auth/signinResponse"
            /\ body.id = cred.id
            /\ TextOf(body.rawId, cred.rawId)
            /\ body.hasResponse = cred.hasResponse
            /\ cred.hasResponse =>
                  \A f \in AssertionFields : TextOf(body.response[f], cred.response[f])
\* get has resolved with a full response and the verification request left
C13_Witness ==
  \E p \in Handles :
    /\ Is(p, "authenticate")
    /\ PlatformResolved(p, "get")
    /\ last.input.value.hasResponse
    /\ cer[p].pc = "signinResponse"
    /\ log[p][Len(log[p])].body.response["signature"] = Txt("sig")

\* the external calls of the ceremony of p, in program order, by name
IsExternal(e) == e.op \in {"fetch", "create", "get"}
CallName(e) == IF e.op = "fetch" THEN e.path ELSE e.op
ExternalCalls(p) ==
  LET calls == SelectSeq(log[p], IsExternal) IN
  [i \in 1..Len(calls) |-> CallName(calls[i])]
IsPrefix(a, b) == Len(a) <= Len(b) /\ \A i \in 1..Len(a) : a[i] = b[i]
RegisterOrder == <<"/auth/registerRequest", "create", "/auth/registerResponse">>
AuthenticateOrder == <<"/auth/signinRequest", "get", "/auth/signinResponse">>
\* how many external calls a ceremony has made when it awaits `pc`
CallsMadeAt(pc) ==
  CASE pc \in {"registerRequest", "signinRequest"} -> 1
    [] pc \in {"create", "get"} -> 2
    [] pc \in {"registerResponse", "signinResponse"} -> 3
\* C14: the external calls of registerCredential are an initial part of:
\* options request, create, verification request; those of authenticate
\* an initial part of: options request, get, verification request.  So
\* each is made at most once, in that order.  A segment makes at most one
\* call, the next in order, and only when run with a 200 answer or a
\* resolved platform call; a failure is followed by no call at all.
C14_CallsOnceInOrder ==
  \A p \in Handles :
    /\ Is(p, "registerCredential") => IsPrefix(ExternalCalls(p), RegisterOrder)
    /\ Is(p, "authenticate") => IsPrefix(ExternalCalls(p), AuthenticateOrder)
    /\ (Is(p, "registerCredential") \/ Is(p, "authenticate")) =>
          /\ Len(ExternalCalls(p)) >= 1
          /\ InFlight(p) => Len(ExternalCalls(p)) = CallsMadeAt(cer[p].pc)
          /\ (last.to = p /\ last.kind # "call") =>
                /\ Len(ExternalCalls(p)) \in {CallsMadeAt(last.at), CallsMadeAt(last.at) + 1}
                /\ Len(ExternalCalls(p)) > CallsMadeAt(last.at) =>
                      \/ last.kind = "response" /\ last.input.status = StatusOK
                      \/ last.kind = "platform" /\ last.input.settled = "resolved"
                /\ cer[p].pc = "rejected" => Len(ExternalCalls(p)) = CallsMadeAt(last.at)
\* an authentication made its three calls and was rejected at the last
C14_Witness ==
  \E p \in Handles :
    /\ Is(p, "authenticate")
    /\ AnsweredError(p, "signinResponse")
    /\ ExternalCalls(p) = AuthenticateOrder
    /\ cer[p].pc = "rejected"

\* the ceremony of p has written or deleted the slot
Writes(p) == Ops(p, "setItem") \cup Ops(p, "removeItem")
\* C15: a segment of authenticate never leaves the slot other than it found
\* it, and authenticate neither sets nor deletes it; setItem occurs only in
\* registerCredential, in the segment run when create resolves, and
\* removeItem only in unregisterCredential, at its call; every other
\* segment of those two leaves the slot as it found it.
C15_SlotFrame ==
  \A p \in Handles :
    /\ Is(p, "authenticate") => Writes(p) = {}
    /\ Ops(p, "setItem") # {} => Is(p, "registerCredential")
    /\ Ops(p, "removeItem") # {} => Is(p, "unregisterCredential")
    /\ last.to = p =>
          /\ Is(p, "authenticate") => slot = last.before
          /\ slot # last.before =>
                \/ Is(p, "registerCredential") /\ PlatformResolved(p, "create")
                \/ Is(p, "unregisterCredential") /\ Called(p)
          /\ (Is(p, "registerCredential") /\ ~PlatformResolved(p, "create")) =>
                (slot = last.before /\ (last.kind = "response" \/ Writes(p) = {}))
          /\ (Is(p, "unregisterCredential") /\ ~Called(p)) => slot = last.before
\* an authentication was verified with a credential other than the stored one
C15_Witness ==
  \E p \in Handles :
    /\ Is(p, "authenticate")
    /\ Answered200(p, "signinResponse")
    /\ cer[p].pc = "resolved"
    /\ slot = "abc"
    /\ last.before = "abc"
    /\ log[p][Len(log[p])].body.id = "xyz"

\* a registration of p has just ended before its create resolved
RegistrationAborted(p) ==
  /\ Is(p, "registerCredential")
  /\ last.to = p
  /\ cer[p].pc = "rejected"
  /\ last.at \in {"registerRequest", "create"}
\* C16: the slot is absent before any call, and a segment that leaves the
\* slot other than it found it either leaves it absent or is the segment
\* run when create resolves, which leaves in it the identifier create
\* resolved with; so in every reachable state the slot is absent or holds
\* an identifier a create call returned.  A registration that ends at the
\* options request, at decoding or at create has not written the slot, and
\* the segment that ends it leaves the slot as it found it.
C16_SlotAbsentOrCreated ==
  /\ slot \in CredIds \cup {Absent}
  /\ last.to = "none" => slot = Absent
  /\ slot # last.before =>
        \/ slot = Absent
        \/ \E p \in Handles :
              /\ PlatformResolved(p, "create")
              /\ slot = last.input.value.id
  /\ \A p \in Handles :
        /\ (Is(p, "registerCredential") /\ cer[p].pc \in {"registerRequest", "create"}) =>
              Writes(p) = {}
        /\ RegistrationAborted(p) => (Writes(p) = {} /\ slot = last.before)
\* a registration ended at create while the slot held an earlier identifier
C16_Witness ==
  \E p \in Handles :
    /\ RegistrationAborted(p)
    /\ PlatformRejected(p, "create")
    /\ slot = "xyz"
\* a registration ended at decoding while the slot held an identifier
C16_WitnessDecode ==
  \E p \in Handles :
    /\ RegistrationAborted(p)
    /\ DecodeFailed(p)
    /\ slot \in CredIds

\* the identifiers the requests of the ceremony of p name in their query
Named(p) == {x \in CredIds : \E k \in Fetches(p) : log[p][k].query = encodeURIComponent(x)}
\* C17: the removal request of unregisterCredential names the caller's
\* argument and nothing else: called with x while the slot holds another
\* identifier y, it deletes y locally and names x alone to the server, in
\* its one request, which carries no body; so the server is never asked
\* to remove y, and after the call the slot no longer holds it.
C17_RemovalNamesArgument ==
  \A p \in Handles :
    Is(p, "unregisterCredential") =>
      /\ Cardinality(Named(p)) = 1
      /\ \A k \in Fetches(p) :
            /\ log[p][k].body = NoPayload
            /\ \E x \in CredIds : log[p][k].query = encodeURIComponent(x)
      /\ Called(p) =>
            /\ Named(p) = {last.input.argument}
            /\ log[p][1].removed = last.before
            /\ slot = Absent
            /\ last.before # last.input.argument => last.before \notin Named(p)
\* unregisterCredential("abc") resolved after deleting "xyz", run alone
C17_Witness ==
  \E p \in Handles :
    /\ Is(p, "unregisterCredential")
    /\ Answered200(p, "removeKey")
    /\ cer[p].pc = "resolved"
    /\ solo[p]
    /\ log[p][1].removed = "xyz"
    /\ Named(p) = {"abc"}
    /\ slot = Absent

\* the handle that is not p
Other(p) == CHOOSE q \in Handles : q # p
\* the ceremony of p has resolved on a 200 answer to the request it awaited at `at`
ResolvedOn(p, at) == cer[p].pc = "resolved" /\ last.input.status = StatusOK /\ last.at = at
\* a registration resolved successfully while the slot is absent
RegisteredButAbsent(p) ==
  /\ Is(p, "registerCredential")
  /\ JustRan(p, "response", "registerResponse")
  /\ ResolvedOn(p, "registerResponse")
  /\ slot = Absent
\* an unregistration resolved successfully while the slot holds an identifier
UnregisteredButHeld(p) ==
  /\ Is(p, "unregisterCredential")
  /\ JustRan(p, "response", "removeKey")
  /\ ResolvedOn(p, "removeKey")
  /\ slot \in CredIds
\* what the deletes of the ceremony of p removed from the slot
Removed(p) == {log[p][i].removed : i \in Ops(p, "removeItem")}
\* C18: with one registerCredential and one unregisterCredential running
\* concurrently, a successful result and the slot disagree exactly through
\* the interleaving of the delete and the persist step: a registration
\* that resolves while the slot is absent persisted its identifier and the
\* unregistration deleted that identifier before the verification
\* response; an unregistration that resolves while the slot holds an
\* identifier deleted first and the registration persisted afterwards.
\* A ceremony the other one did not interleave with agrees with the slot.
\* Both disagreeing states are reached (C18_Witness, C18_WitnessUnregister).
C18_ResultAndSlotDisagree ==
  \A p \in Handles :
    /\ RegisteredButAbsent(p) =>
          /\ ~solo[p]
          /\ Persisted(p)
          /\ Is(Other(p), "unregisterCredential")
          /\ Removed(Other(p)) = {PersistedId(p)}
    /\ UnregisteredButHeld(p) =>
          /\ ~solo[p]
          /\ Is(Other(p), "registerCredential")
          /\ Persisted(Other(p))
          /\ slot = PersistedId(Other(p))
          /\ Removed(p) = {Absent}
    /\ (Is(p, "registerCredential") /\ JustRan(p, "response", "registerResponse")
          /\ ResolvedOn(p, "registerResponse") /\ solo[p]) => slot = PersistedId(p)
    /\ (Is(p, "unregisterCredential") /\ JustRan(p, "response", "removeKey")
          /\ ResolvedOn(p, "removeKey") /\ solo[p]) => slot = Absent
\* the registration has resolved successfully and the slot is absent
C18_Witness == \E p \in Handles : RegisteredButAbsent(p)
\* the unregistration has resolved successfully and the slot holds an identifier
C18_WitnessUnregister == \E p \in Handles : UnregisteredButHeld(p)

\* the ceremony of p has reached a terminal outcome
Settled(p) == cer[p].pc \in Terminal
\* a step leaves the ceremony of p, in flight, where it stood unless it is
\* the settling of the call p awaits
OnlySettlingMoves(p) ==
  (InFlight(p) /\ cer'[p] # cer[p]) =>
      /\ last'.to = p
      /\ last'.kind \in {"response", "platform"}
      /\ last'.at = cer[p].pc
\* C19: when every network call and every platform call eventually
\* settles, every started registerCredential, authenticate and
\* unregisterCredential eventually resolves or rejects; and nothing but
\* the settling of the call it awaits moves a ceremony in flight (there is
\* no timeout and no cancellation step), so a call that never settles
\* leaves its ceremony where it stands.
C19_Terminates ==
  /\ \A p \in Handles : InFlight(p) ~> Settled(p)
  /\ [][\A p \in Handles : OnlySettlingMoves(p)]_vars
\* a registration and an authentication that went through all their calls
\* have both reached a terminal outcome
C19_Witness ==
  /\ \A p \in Handles : Settled(p)
  /\ \E p \in Handles :
        /\ Is(p, "registerCredential") /\ Len(log[p]) = 4
        /\ Is(Other(p), "authenticate") /\ Len(log[Other(p)]) >= 3

====
